---- MODULE Spec2Model ----
(***************************************************************************)
(* K-way hyperedge greedy refinement (TPgreedyRefine::Pass) together with  *)
(* the GoldenEvaluator queries it relies on.                               *)
(*                                                                         *)
(* Weights are small naturals, on which float arithmetic is exact.  The    *)
(* hypergraph carries one weight dimension and no timing paths, so         *)
(* cur_paths_cost is the empty vector and a gain is a pure cut-cost delta. *)
(***************************************************************************)
EXTENDS Integers, FiniteSets, Sequences, TLC

\* ----------------------------------------------------------------------
\* Bounds and input sets
\* ----------------------------------------------------------------------
NumHyperedges == 2

Vertices == 0 .. 2

Dims == {0}

PartCounts == {2, 3}

\* every hyperedge has unit weight, or one of them is heavy
HyperedgeWeightChoices(n) ==
    {[e \in 0 .. (n - 1) |-> [d \in Dims |-> IF e = h THEN 2 ELSE 1]] :
        h \in -1 .. (n - 1)}

\* vertex 0 is light or heavy, the others have unit weight
VertexWeightChoices == {[v \in Vertices |-> [d \in Dims |-> IF v = 0 THEN w ELSE 1]] : w \in {1, 2}}

\* per-block upper bounds handed in by the driver: the same bound for every
\* block, or a bound on block 0 alone (9 exceeds every total weight)
BalanceCaps == {<<2, 2>>, <<9, 9>>, <<1, 9>>}

MaxMovesValues == {0, 2, NumHyperedges + 1}

\* values the tie-break key of the default-constructed baseline record may take
BaselineVerWtSums == {0, 9}

\* a hyperedge connects at least two vertices
PinSets == {s \in SUBSET Vertices : Cardinality(s) >= 2}

VARIABLES
    hgraph,             \* HGraph: num_hyperedges_, eind, hyperedge_weights_, vertex_weights_
    num_parts_,         \* TPrefiner::num_parts_
    max_moves_,         \* TPrefiner::max_moves_
    max_block_balance,  \* matrix<float>, never written
    block_balance,      \* matrix<float>[block][dim]
    net_degs,           \* matrix<int>[hyperedge][block]
    cur_paths_cost,     \* std::vector<float>
    solution,           \* TP_partition
    total_gain,         \* local of Pass
    num_move,           \* local of Pass
    hyperedge_id,       \* loop variable of Pass
    pc,                 \* "loop" while sweeping, "returned" after return
    retval,             \* value returned by Pass
    start,              \* snapshot of the buffers when Pass was entered
    last,               \* what the last loop iteration did
    num_evaluated,      \* cut hyperedges whose candidates were evaluated
    num_committed,      \* calls of AcceptHyperedgeMove
    evaluator,          \* GoldenEvaluator: its e_wt_factors_ and what became of it
    timing,             \* timing attributes and costs of the hypergraph
    builders,           \* the cts::TreeBuilder objects constructed so far
    parent_,            \* TreeBuilder::parent_ of each builder
    children_           \* TreeBuilder::children_ of each builder

vars == <<hgraph, num_parts_, max_moves_, max_block_balance, block_balance,
          net_degs, cur_paths_cost, solution, total_gain, num_move,
          hyperedge_id, pc, retval, start, last, num_evaluated, num_committed,
          evaluator, timing, builders, parent_, children_>>

Blocks == 0 .. (num_parts_ - 1)

Hyperedges == 0 .. (hgraph.num_hyperedges_ - 1)

\* ----------------------------------------------------------------------
\* Helpers
\* ----------------------------------------------------------------------
RECURSIVE SumOver(_, _)
SumOver(S, f) ==
    IF S = {} THEN 0
    ELSE LET x == CHOOSE y \in S : TRUE
         IN  f[x] + SumOver(S \ {x}, f)

\* cost factor of the single hyperedge weight dimension
e_wt_factors_ == [d \in Dims |-> 1]

\* ----------------------------------------------------------------------
\* GoldenEvaluator
\* ----------------------------------------------------------------------
GetNetDegrees(hg, sol) ==
    [e \in Hyperedges |->
        [b \in Blocks |-> Cardinality({v \in hg.eind[e] : sol[v] = b})]]

GetBlockBalance(hg, sol) ==
    [b \in Blocks |->
        [d \in Dims |->
            SumOver({v \in Vertices : sol[v] = b},
                    [v \in Vertices |-> hg.vertex_weights_[v][d]])]]

CalculateHyperedgeCost(e, hg) ==
    SumOver(Dims, [d \in Dims |-> e_wt_factors_[d] * hg.hyperedge_weights_[e][d]])

GetCutHyperedges(hg, sol) ==
    {e \in Hyperedges : \E u, v \in hg.eind[e] : sol[u] # sol[v]}

\* first component of the TP_partition_token returned by CutEvaluator
CutEvaluator(hg, sol) ==
    SumOver(GetCutHyperedges(hg, sol),
            [e \in Hyperedges |-> CalculateHyperedgeCost(e, hg)])

\* ----------------------------------------------------------------------
\* Hypergraph / refiner helpers used by Pass
\* ----------------------------------------------------------------------
NoHyperedge == -1

\* tie-break key; baseWt stands for what the call yields on the hyperedge id
\* of a default-constructed HyperedgeGain
GetHyperedgeVerWtSum(hg, e, baseWt) ==
    IF e = NoHyperedge THEN baseWt
    ELSE SumOver(hg.eind[e], [v \in Vertices |-> hg.vertex_weights_[v][0]])

\* the vertices of hyperedge e that are not in block to_pid yet
MovedVertices(e, to_pid, hg, sol) == {v \in hg.eind[e] : sol[v] # to_pid}

MovedSolution(e, to_pid, hg, sol) ==
    [v \in Vertices |-> IF v \in hg.eind[e] THEN to_pid ELSE sol[v]]

CheckHyperedgeMoveLegality(e, to_pid, hg, sol, bal, maxbal) ==
    \A d \in Dims :
        bal[to_pid][d]
          + SumOver(MovedVertices(e, to_pid, hg, sol),
                    [v \in Vertices |-> hg.vertex_weights_[v][d]])
        <= maxbal[to_pid][d]

\* variant: the gain counts the moved hyperedge alone
CalculateHyperedgeGain_LocalOnly(e, to_pid, hg, sol) ==
    [hyperedge |-> e,
     to_pid    |-> to_pid,
     gain      |-> IF e \in GetCutHyperedges(hg, sol)
                   THEN CalculateHyperedgeCost(e, hg) ELSE 0]

CalculateHyperedgeGain(e, to_pid, hg, sol) ==
    [hyperedge |-> e,
     to_pid    |-> to_pid,
     gain      |-> CutEvaluator(hg, sol)
                     - CutEvaluator(hg, MovedSolution(e, to_pid, hg, sol))]

\* variant: the baseline gain starts below zero
BaselineGainHyperedge_Negative == [hyperedge |-> NoHyperedge, to_pid |-> -1, gain |-> -2]

\* std::make_shared<HyperedgeGain>() followed by SetGain(0.0f)
BaselineGainHyperedge == [hyperedge |-> NoHyperedge, to_pid |-> -1, gain |-> 0]

\* variant: the gain comparison is inverted
CompareGainHyperedge_Inverted(a, b, hg, baseWt) ==
    IF a.gain < b.gain THEN TRUE
    ELSE IF a.gain = b.gain
            /\ GetHyperedgeVerWtSum(hg, a.hyperedge, baseWt)
                 < GetHyperedgeVerWtSum(hg, b.hyperedge, baseWt) THEN TRUE
    ELSE FALSE

\* variant: a later candidate of equal gain replaces the best one
CompareGainHyperedge_TieToLater(a, b, hg, baseWt) ==
    IF a.gain >= b.gain /\ b.hyperedge # NoHyperedge THEN TRUE
    ELSE IF a.gain > b.gain THEN TRUE
    ELSE IF a.gain = b.gain
            /\ GetHyperedgeVerWtSum(hg, a.hyperedge, baseWt)
                 < GetHyperedgeVerWtSum(hg, b.hyperedge, baseWt) THEN TRUE
    ELSE FALSE

CompareGainHyperedge(a, b, hg, baseWt) ==
    IF a.gain > b.gain THEN TRUE
    ELSE IF a.gain = b.gain
            /\ GetHyperedgeVerWtSum(hg, a.hyperedge, baseWt)
                 < GetHyperedgeVerWtSum(hg, b.hyperedge, baseWt) THEN TRUE
    ELSE FALSE

\* variant: the candidate loop without the legality test
RECURSIVE BestCandidate_NoLegality(_, _, _, _)
BestCandidate_NoLegality(e, to_pid, best, baseWt) ==
    IF to_pid >= num_parts_ THEN best
    ELSE LET gain_hyperedge == CalculateHyperedgeGain(e, to_pid, hgraph, solution)
         IN  IF CompareGainHyperedge(gain_hyperedge, best[2], hgraph, baseWt)
             THEN BestCandidate_NoLegality(e, to_pid + 1, <<to_pid, gain_hyperedge>>, baseWt)
             ELSE BestCandidate_NoLegality(e, to_pid + 1, best, baseWt)

\* the candidate loop of Pass: best is <<best_candidate_block, best_gain_hyperedge>>
RECURSIVE BestCandidate(_, _, _, _)
BestCandidate(e, to_pid, best, baseWt) ==
    IF to_pid >= num_parts_ THEN best
    ELSE IF CheckHyperedgeMoveLegality(e, to_pid, hgraph, solution,
                                       block_balance, max_block_balance)
         THEN LET gain_hyperedge == CalculateHyperedgeGain(e, to_pid, hgraph, solution)
              IN  IF CompareGainHyperedge(gain_hyperedge, best[2], hgraph, baseWt)
                  THEN BestCandidate(e, to_pid + 1, <<to_pid, gain_hyperedge>>, baseWt)
                  ELSE BestCandidate(e, to_pid + 1, best, baseWt)
         ELSE BestCandidate(e, to_pid + 1, best, baseWt)

\* block_set of Pass
BlockSet(e) == {b \in Blocks : net_degs[e][b] > 0}

\* variant: only a hyperedge without pins counts as uncut
FullyWithinOneBlock_Strict(e) == Cardinality(BlockSet(e)) < 1

\* ignore the hyperedge if it's fully within one block
FullyWithinOneBlock(e) == Cardinality(BlockSet(e)) <= 1

\* variant: the cap test is off by one
MoveCapReached_OffByOne(n) == n > max_moves_

\* the test that ends the pass once the iteration counter is updated
MoveCapReached(n) == n >= max_moves_

\* variant: every vertex is put into the target block
AcceptSolution_AllVertices(g, hg, sol) == [v \in Vertices |-> g.to_pid]

\* AcceptHyperedgeMove: the incremental updates of the caches
AcceptSolution(g, hg, sol) ==
    [v \in Vertices |-> IF v \in MovedVertices(g.hyperedge, g.to_pid, hg, sol)
                        THEN g.to_pid ELSE sol[v]]

\* variant: the source blocks are not debited
AcceptBlockBalance_NoDebit(g, hg, sol, bal) ==
    LET moved == MovedVertices(g.hyperedge, g.to_pid, hg, sol)
        wt(S, d) == SumOver(S, [v \in Vertices |-> hg.vertex_weights_[v][d]])
    IN  [b \in Blocks |->
            [d \in Dims |->
                bal[b][d] + (IF b = g.to_pid THEN wt(moved, d) ELSE 0)]]

AcceptBlockBalance(g, hg, sol, bal) ==
    LET moved == MovedVertices(g.hyperedge, g.to_pid, hg, sol)
        wt(S, d) == SumOver(S, [v \in Vertices |-> hg.vertex_weights_[v][d]])
    IN  [b \in Blocks |->
            [d \in Dims |->
                bal[b][d] - wt({v \in moved : sol[v] = b}, d)
                          + (IF b = g.to_pid THEN wt(moved, d) ELSE 0)]]

\* variant: only the row of the moved hyperedge is updated
AcceptNetDegs_OnlyMovedHyperedge(g, hg, sol, degs) ==
    LET moved == MovedVertices(g.hyperedge, g.to_pid, hg, sol)
    IN  [he \in Hyperedges |->
            IF he # g.hyperedge THEN degs[he]
            ELSE [b \in Blocks |->
                    degs[he][b]
                      - Cardinality({v \in moved \cap hg.eind[he] : sol[v] = b})
                      + (IF b = g.to_pid
                         THEN Cardinality(moved \cap hg.eind[he]) ELSE 0)]]

\* variant: the source blocks' degrees are not decremented
AcceptNetDegs_NoDecrement(g, hg, sol, degs) ==
    LET moved == MovedVertices(g.hyperedge, g.to_pid, hg, sol)
    IN  [he \in Hyperedges |->
            [b \in Blocks |->
                degs[he][b]
                  + (IF b = g.to_pid
                     THEN Cardinality(moved \cap hg.eind[he]) ELSE 0)]]

AcceptNetDegs(g, hg, sol, degs) ==
    LET moved == MovedVertices(g.hyperedge, g.to_pid, hg, sol)
    IN  [he \in Hyperedges |->
            [b \in Blocks |->
                degs[he][b]
                  - Cardinality({v \in moved \cap hg.eind[he] : sol[v] = b})
                  + (IF b = g.to_pid
                     THEN Cardinality(moved \cap hg.eind[he]) ELSE 0)]]

\* ----------------------------------------------------------------------
\* Initial state: Pass is entered with caches that match the solution
\* ----------------------------------------------------------------------
\* a hypergraph with n hyperedges
HGraphs(n, vws) ==
    {[num_hyperedges_ |-> n, eind |-> eind, hyperedge_weights_ |-> hw,
      vertex_weights_ |-> vw] :
        eind \in [0 .. (n - 1) -> PinSets],
        hw \in HyperedgeWeightChoices(n),
        vw \in vws}

MaxBlockBalance(cap) ==
    [b \in Blocks |-> [d \in Dims |-> IF b = 0 THEN cap[1] ELSE cap[2]]]

\* an evaluator whose factors match the hypergraph, and a hypergraph without
\* timing information
MatchingEvaluator == [e_wt_factors_ |-> e_wt_factors_, state |-> "constructed", cost |-> 0]

NoTiming == [paths |-> << >>, path_timing_attr_ |-> << >>,
             hyperedge_timing_attr_ |-> << >>, path_timing_cost_ |-> << >>,
             hyperedge_timing_cost_ |-> << >>, calls |-> 0, last |-> "none"]

\* ----------------------------------------------------------------------
\* GoldenEvaluator: construction, cost of a hyperedge, timing weights
\* ----------------------------------------------------------------------
MaxTimingCalls == 3
MaxFactorDims == 2
FactorValues == {1, 2}
GarbageFactors == {0, 7}
SlackValues == {-1, 1}
timing_exp_factor_ == 2
extra_cut_delay_ == 1

\* the constructor stores the factor vector it is given, of any length
FactorVectors == UNION {[0 .. (k - 1) -> FactorValues] : k \in 0 .. MaxFactorDims}

GoldenEvaluator(e_wt_factors) ==
    [e_wt_factors_ |-> e_wt_factors, state |-> "constructed", cost |-> 0]

\* variant: no check of the factor vector against the hypergraph
DimensionsMatch_Unchecked(factors, hg) == TRUE

DimensionsMatch(factors, hg) ==
    \A e \in 0 .. (hg.num_hyperedges_ - 1) :
        DOMAIN factors = DOMAIN hg.hyperedge_weights_[e]

\* e_wt_factors dot_product hyperedge_weights_[e]; a factor read past the end
\* of the vector is whatever the memory holds
DotProduct(factors, w, garbage) ==
    SumOver(DOMAIN w,
            [d \in DOMAIN w |->
                (IF d \in DOMAIN factors THEN factors[d] ELSE garbage) * w[d]])

\* the cost of a slack: zero when positive, growing as it gets more negative
TimingScore(slack) ==
    IF slack > 0 THEN 0 ELSE timing_exp_factor_ ^ (0 - slack)

PathTimingCosts(t) ==
    [p \in DOMAIN t.paths |-> TimingScore(t.path_timing_attr_[p])]

HyperedgeTimingCosts(t) ==
    [e \in DOMAIN t.hyperedge_timing_attr_ |->
        TimingScore(t.hyperedge_timing_attr_[e])]

\* variant: the path weights are added onto the costs of the previous call
OverlayBase_Accumulating(t) == t.hyperedge_timing_cost_

OverlayBase(t) == HyperedgeTimingCosts(t)

OverlayPaths(base, pcost, paths) ==
    [e \in DOMAIN base |->
        base[e] + SumOver({p \in DOMAIN paths : e \in paths[p]}, pcost)]

TransformAndOverlay(t) ==
    [t EXCEPT !.path_timing_cost_ = PathTimingCosts(t),
              !.hyperedge_timing_cost_ =
                  OverlayPaths(OverlayBase(t), PathTimingCosts(t), t.paths),
              !.calls = @ + 1]

\* extra delay on the hyperedges being cut, and on the paths through them
DelayCuts(t, cut) ==
    [t EXCEPT !.hyperedge_timing_attr_ =
                  [e \in DOMAIN @ |->
                      @[e] - (IF e \in cut THEN extra_cut_delay_ ELSE 0)],
              !.path_timing_attr_ =
                  [p \in DOMAIN @ |->
                      @[p] - extra_cut_delay_ * Cardinality(t.paths[p] \cap cut)]]

Timings(n) ==
    {[paths |-> <<p>>, path_timing_attr_ |-> <<ps>>,
      hyperedge_timing_attr_ |-> [e \in 0 .. (n - 1) |-> hs],
      path_timing_cost_ |-> <<0>>,
      hyperedge_timing_cost_ |-> [e \in 0 .. (n - 1) |-> 0],
      calls |-> 0, last |-> "none"] :
        p \in (SUBSET (0 .. (n - 1))) \ {{}},
        ps \in SlackValues,
        hs \in SlackValues}

UnitVertexWeights == {[v \in Vertices |-> [d \in Dims |-> 1]]}

\* the locals of Pass at entry, and the bookkeeping of the pass
\* ----------------------------------------------------------------------
\* cts::TreeBuilder: the links between builders
\* ----------------------------------------------------------------------
MaxBuilders == 3
MaxAddChildCalls == 2
NullBuilder == 0

BuilderIds == 1 .. MaxBuilders

\* no builder constructed yet
NoBuilders ==
    /\ builders = {}
    /\ parent_ = [b \in BuilderIds |-> NullBuilder]
    /\ children_ = [b \in BuilderIds |-> << >>]

TreeState == <<builders, parent_, children_>>

PassEntry ==
    /\ total_gain = 0
    /\ num_move = 0
    /\ hyperedge_id = 0
    /\ pc = "loop"
    /\ retval = 0
    /\ start = [solution |-> solution, block_balance |-> block_balance,
                net_degs |-> net_degs, cur_paths_cost |-> cur_paths_cost,
                pass |-> 1]
    /\ last = [kind |-> "enter", hyperedge |-> NoHyperedge, to_pid |-> -1, gain |-> 0]
    /\ num_evaluated = 0
    /\ num_committed = 0

\* hypergraphs of unit weights whose hyperedges are {0,1} or {1,2}
UnitHGraphs(n) ==
    {hg \in HGraphs(n, UnitVertexWeights) :
        /\ \A e \in DOMAIN hg.eind : hg.eind[e] \in {{0, 1}, {1, 2}}
        /\ \A e \in DOMAIN hg.eind : \A d \in Dims : hg.hyperedge_weights_[e][d] = 1}

\* two blocks, both bounded by 2 or both unbounded, on the unit hypergraphs
InitUnit ==
    /\ num_parts_ = 2
    /\ max_moves_ \in MaxMovesValues
    /\ hgraph \in UnitHGraphs(NumHyperedges)
    /\ solution \in [Vertices -> Blocks]
    /\ \E cap \in {<<2, 2>>, <<9, 9>>} : max_block_balance = MaxBlockBalance(cap)
    /\ block_balance = GetBlockBalance(hgraph, solution)
    /\ net_degs = GetNetDegrees(hgraph, solution)
    /\ cur_paths_cost = << >>
    /\ evaluator = MatchingEvaluator
    /\ timing = NoTiming
    /\ PassEntry
    /\ NoBuilders

\* Pass entered with a net_degs the caller computed for another solution
InitStale ==
    /\ num_parts_ = 2
    /\ max_moves_ \in MaxMovesValues
    /\ hgraph \in HGraphs(NumHyperedges, UnitVertexWeights)
    /\ solution \in [Vertices -> Blocks]
    /\ \E cap \in {<<2, 2>>, <<9, 9>>} : max_block_balance = MaxBlockBalance(cap)
    /\ block_balance = GetBlockBalance(hgraph, solution)
    /\ \E stale \in [Vertices -> Blocks] :
          /\ GetNetDegrees(hgraph, stale) # GetNetDegrees(hgraph, solution)
          /\ net_degs = GetNetDegrees(hgraph, stale)
    /\ cur_paths_cost = << >>
    /\ evaluator = MatchingEvaluator
    /\ timing = NoTiming
    /\ PassEntry
    /\ NoBuilders

\* an evaluator constructed with any factor vector, on a hypergraph with one
\* timing path
InitEvaluator ==
    /\ num_parts_ = 2
    /\ max_moves_ = NumHyperedges + 1
    /\ hgraph \in {hg \in HGraphs(NumHyperedges, UnitVertexWeights) :
                      \A e \in DOMAIN hg.eind : hg.eind[e] \in {{0, 1}, {1, 2}}}
    /\ solution \in {[v \in Vertices |-> IF v >= k THEN 1 ELSE 0] : k \in 1 .. 2}
    /\ max_block_balance = MaxBlockBalance(<<9, 9>>)
    /\ block_balance = GetBlockBalance(hgraph, solution)
    /\ net_degs = GetNetDegrees(hgraph, solution)
    /\ cur_paths_cost = << >>
    /\ evaluator \in {GoldenEvaluator(f) : f \in FactorVectors}
    /\ timing \in Timings(NumHyperedges)
    /\ PassEntry
    /\ NoBuilders

\* the first pass of a driver whose move cap does not bind
InitDriver ==
    /\ InitUnit
    /\ ~MoveCapReached(hgraph.num_hyperedges_)

Init ==
    /\ num_parts_ \in PartCounts
    /\ max_moves_ \in MaxMovesValues
    /\ hgraph \in HGraphs(NumHyperedges, VertexWeightChoices)
    /\ solution \in [Vertices -> Blocks]
    /\ \E cap \in BalanceCaps : max_block_balance = MaxBlockBalance(cap)
    /\ block_balance = GetBlockBalance(hgraph, solution)
    /\ net_degs = GetNetDegrees(hgraph, solution)
    /\ cur_paths_cost = << >>
    /\ evaluator = MatchingEvaluator
    /\ timing = NoTiming
    /\ PassEntry
    /\ NoBuilders

\* two blocks, unit vertex weights, one hyperedge or more, each block bounded
\* by 2 or unbounded: the instances around the worked scenarios
InitSmall ==
    /\ num_parts_ = 2
    /\ max_moves_ \in MaxMovesValues
    /\ \E n \in 1 .. NumHyperedges : hgraph \in HGraphs(n, UnitVertexWeights)
    /\ solution \in [Vertices -> Blocks]
    /\ \E cap \in {2, 9} \X {2, 9} : max_block_balance = MaxBlockBalance(cap)
    /\ block_balance = GetBlockBalance(hgraph, solution)
    /\ net_degs = GetNetDegrees(hgraph, solution)
    /\ cur_paths_cost = << >>
    /\ evaluator = MatchingEvaluator
    /\ timing = NoTiming
    /\ PassEntry
    /\ NoBuilders

Frame == UNCHANGED <<hgraph, num_parts_, max_moves_, max_block_balance, start,
                     evaluator, timing, TreeState>>

\* ----------------------------------------------------------------------
\* One iteration of the sweep of Pass
\* ----------------------------------------------------------------------
InLoop == pc = "loop" /\ hyperedge_id < hgraph.num_hyperedges_

\* variant: the loop variable is not advanced
NextHyperedge_Stuck(e) == e

\* hyperedge_id++
NextHyperedge(e) == e + 1

\* the hyperedge is fully within one block: continue
SkipUncut ==
    /\ InLoop
    /\ FullyWithinOneBlock(hyperedge_id)
    /\ hyperedge_id' = NextHyperedge(hyperedge_id)
    /\ last' = [kind |-> "skip", hyperedge |-> hyperedge_id, to_pid |-> -1, gain |-> 0]
    /\ Frame
    /\ UNCHANGED <<block_balance, net_degs, cur_paths_cost, solution, total_gain,
                   num_move, pc, retval, num_evaluated, num_committed>>

\* num_move reaches max_moves_: return total_gain
CapReturn ==
    /\ InLoop
    /\ ~FullyWithinOneBlock(hyperedge_id)
    /\ MoveCapReached(num_move + 1)
    /\ num_move' = num_move + 1
    /\ pc' = "returned"
    /\ retval' = total_gain
    /\ last' = [kind |-> "cap", hyperedge |-> hyperedge_id, to_pid |-> -1, gain |-> 0]
    /\ Frame
    /\ UNCHANGED <<block_balance, net_degs, cur_paths_cost, solution, total_gain,
                   hyperedge_id, num_evaluated, num_committed>>

\* the candidates are evaluated and none replaces the baseline
NoMove ==
    /\ InLoop
    /\ ~FullyWithinOneBlock(hyperedge_id)
    /\ ~MoveCapReached(num_move + 1)
    /\ \E baseWt \in BaselineVerWtSums :
          BestCandidate(hyperedge_id, 0, <<-1, BaselineGainHyperedge>>, baseWt)[1] = -1
    /\ num_move' = num_move + 1
    /\ num_evaluated' = num_evaluated + 1
    /\ hyperedge_id' = NextHyperedge(hyperedge_id)
    /\ last' = [kind |-> "nomove", hyperedge |-> hyperedge_id, to_pid |-> -1, gain |-> 0]
    /\ Frame
    /\ UNCHANGED <<block_balance, net_degs, cur_paths_cost, solution, total_gain,
                   pc, retval, num_committed>>

\* the candidates are evaluated and the best one is committed
CommitMove ==
    /\ InLoop
    /\ ~FullyWithinOneBlock(hyperedge_id)
    /\ ~MoveCapReached(num_move + 1)
    /\ \E baseWt \in BaselineVerWtSums :
          LET best == BestCandidate(hyperedge_id, 0, <<-1, BaselineGainHyperedge>>, baseWt)
              g    == best[2]
          IN  /\ best[1] > -1
              /\ total_gain' = total_gain + g.gain
              /\ solution' = AcceptSolution(g, hgraph, solution)
              /\ block_balance' = AcceptBlockBalance(g, hgraph, solution, block_balance)
              /\ net_degs' = AcceptNetDegs(g, hgraph, solution, net_degs)
              /\ cur_paths_cost' = cur_paths_cost
              /\ last' = [kind |-> "commit", hyperedge |-> g.hyperedge,
                          to_pid |-> g.to_pid, gain |-> g.gain]
    /\ num_move' = num_move + 1
    /\ num_evaluated' = num_evaluated + 1
    /\ num_committed' = num_committed + 1
    /\ hyperedge_id' = NextHyperedge(hyperedge_id)
    /\ Frame
    /\ UNCHANGED <<pc, retval>>

\* finish traversing all the hyperedges
Finish ==
    /\ pc = "loop"
    /\ hyperedge_id >= hgraph.num_hyperedges_
    /\ pc' = "returned"
    /\ retval' = total_gain
    /\ last' = [kind |-> "finish", hyperedge |-> NoHyperedge, to_pid |-> -1, gain |-> 0]
    /\ Frame
    /\ UNCHANGED <<block_balance, net_degs, cur_paths_cost, solution, total_gain,
                   num_move, hyperedge_id, num_evaluated, num_committed>>

Next == SkipUncut \/ CapReturn \/ NoMove \/ CommitMove \/ Finish

Spec == Init /\ [][Next]_vars

SpecSmall == InitSmall /\ [][Next]_vars

\* Pass is sequential code that runs to completion: a step that can be taken
\* is taken
SpecFair == InitUnit /\ [][Next]_vars /\ WF_vars(Next)

SpecStale == InitStale /\ [][Next]_vars

\* passes of one driver are counted up to MaxPasses
MaxPasses == 3

\* the driver calls Pass again on the same buffers after a pass that gained
Reinvoke ==
    /\ pc = "returned"
    /\ retval > 0
    /\ total_gain' = 0
    /\ num_move' = 0
    /\ hyperedge_id' = 0
    /\ pc' = "loop"
    /\ retval' = 0
    /\ start' = [solution |-> solution, block_balance |-> block_balance,
                 net_degs |-> net_degs, cur_paths_cost |-> cur_paths_cost,
                 pass |-> IF start.pass < MaxPasses THEN start.pass + 1
                          ELSE start.pass]
    /\ last' = [kind |-> "enter", hyperedge |-> NoHyperedge, to_pid |-> -1, gain |-> 0]
    /\ num_evaluated' = 0
    /\ num_committed' = 0
    /\ UNCHANGED <<hgraph, num_parts_, max_moves_, max_block_balance, block_balance,
                   net_degs, cur_paths_cost, solution, evaluator, timing,
                   TreeState>>

NextDriver == SkipUncut \/ NoMove \/ CommitMove \/ Finish \/ Reinvoke

\* the driver and Pass are sequential code
SpecDriver == InitDriver /\ [][NextDriver]_vars /\ WF_vars(NextDriver)

\* ----------------------------------------------------------------------
\* Operations of the evaluator
\* ----------------------------------------------------------------------
PassState == <<hgraph, num_parts_, max_moves_, max_block_balance, block_balance,
               net_degs, cur_paths_cost, solution, total_gain, num_move,
               hyperedge_id, pc, retval, start, last, num_evaluated,
               num_committed>>

\* CalculateHyperedgeCost, the first use of the factor vector included
EvaluateCost ==
    /\ evaluator.state # "fatal"
    /\ \E e \in Hyperedges, garbage \in GarbageFactors :
          evaluator' =
              IF DimensionsMatch(evaluator.e_wt_factors_, hgraph)
              THEN [evaluator EXCEPT
                       !.state = "used",
                       !.cost = DotProduct(evaluator.e_wt_factors_,
                                           hgraph.hyperedge_weights_[e], garbage)]
              ELSE [evaluator EXCEPT !.state = "fatal"]
    /\ UNCHANGED <<PassState, timing, TreeState>>

InitializeTiming ==
    /\ timing.calls < MaxTimingCalls
    /\ timing' = [TransformAndOverlay(timing) EXCEPT !.last = "InitializeTiming"]
    /\ UNCHANGED <<PassState, evaluator, TreeState>>

UpdateTiming ==
    /\ timing.calls < MaxTimingCalls
    /\ timing' = [TransformAndOverlay(
                      DelayCuts(timing, GetCutHyperedges(hgraph, solution)))
                  EXCEPT !.last = "UpdateTiming"]
    /\ UNCHANGED <<PassState, evaluator, TreeState>>

NextEvaluator == EvaluateCost \/ InitializeTiming \/ UpdateTiming

SpecEvaluator == InitEvaluator /\ [][NextEvaluator]_vars

\* ----------------------------------------------------------------------
\* Operations of cts::TreeBuilder
\* ----------------------------------------------------------------------
\* entries of children_ that were pushed by addChild, not by a constructor
AddChildCalls ==
    SumOver(builders, [b \in builders |-> Len(children_[b])])
        - Cardinality({b \in builders : parent_[b] # NullBuilder})

\* the constructor: parent_(parent), and this is pushed onto the children_ of
\* a parent that is not null
TreeBuilder ==
    /\ Cardinality(builders) < MaxBuilders
    /\ \E parent \in builders \cup {NullBuilder} :
          LET this == Cardinality(builders) + 1
          IN  /\ builders' = builders \cup {this}
              /\ parent_' = [parent_ EXCEPT ![this] = parent]
              /\ children_' = IF parent # NullBuilder
                              THEN [children_ EXCEPT ![parent] = Append(@, this)]
                              ELSE children_
    /\ UNCHANGED <<PassState, evaluator, timing>>

\* addChild(child): children_.emplace_back(child), nothing else
addChild ==
    /\ AddChildCalls < MaxAddChildCalls
    /\ \E this \in builders, child \in builders :
          children_' = [children_ EXCEPT ![this] = Append(@, child)]
    /\ UNCHANGED <<PassState, evaluator, timing, builders, parent_>>

NextTree == TreeBuilder \/ addChild

\* no builder exists; the partitioner's state is one that stays as it is
InitTree ==
    /\ InitUnit
    /\ MoveCapReached(0)
    /\ solution = [v \in Vertices |-> 0]
    /\ max_block_balance = MaxBlockBalance(<<9, 9>>)

SpecTree == InitTree /\ [][NextTree]_vars


\* ----------------------------------------------------------------------
\* Properties
\* ----------------------------------------------------------------------
Committed == last.kind = "commit"

WithinBound(bal, b) == \A d \in Dims : bal[b][d] <= max_block_balance[b][d]

C2_NetDegsRowSum ==
    \A e \in Hyperedges :
        SumOver(Blocks, net_degs[e]) = Cardinality(hgraph.eind[e])

\* two moves were committed in one pass
C2_Witness == num_committed >= 2

\* C3: in every state of a pass entered with a matching block_balance,
\* block_balance[b][d] is the weight of the vertices assigned to b.
C3_BlockBalanceMatchesRecomputation ==
    block_balance = GetBlockBalance(hgraph, solution)

\* a committed move shifted weight between blocks
C3_Witness == Committed /\ block_balance # start.block_balance

\* C4 as stated: after every committed move every block is within its bound.
C4_AllBlocksWithinBoundAfterCommit ==
    Committed => \A b \in Blocks : WithinBound(block_balance, b)

\* C4 amended: after every committed move the target block is within its
\* bound, and so is every block that was within its bound when the pass was
\* entered.
C4_TargetAndInitiallyLegalBlocksWithinBound ==
    Committed =>
        /\ WithinBound(block_balance, last.to_pid)
        /\ \A b \in Blocks :
              WithinBound(start.block_balance, b) => WithinBound(block_balance, b)

\* a move was committed into a block that holds exactly its cap, in a pass
\* entered with every block within its bound
C4_Witness ==
    /\ Committed
    /\ \A b \in Blocks : WithinBound(start.block_balance, b)
    /\ block_balance[last.to_pid] = max_block_balance[last.to_pid]
    /\ block_balance # start.block_balance

C6_CommittedGainPositive == Committed => last.gain > 0

\* C7: the running total, and hence the value returned on either return
\* path, is never negative.
C7_ReturnNonNegative ==
    /\ total_gain >= 0
    /\ pc = "returned" => retval >= 0

\* the pass returned a positive gain at the move cap
C7_Witness == pc = "returned" /\ last.kind = "cap" /\ retval > 0

\* C8: only cut hyperedges are counted; when the count reaches max_moves_ the
\* pass returns the gain so far without evaluating that hyperedge, so at most
\* max_moves_ - 1 cut hyperedges are evaluated and moved (none if max_moves_
\* is at most 1).
C8_MoveCap ==
    /\ num_evaluated <= (IF max_moves_ > 1 THEN max_moves_ - 1 ELSE 0)
    /\ num_committed <= num_evaluated
    /\ num_move = num_evaluated + (IF last.kind = "cap" THEN 1 ELSE 0)
    /\ last.kind = "cap" =>
          /\ pc = "returned"
          /\ retval = total_gain
          /\ num_move >= max_moves_
          /\ hyperedge_id = last.hyperedge
    /\ (pc = "loop" /\ num_move > 0) => num_move < max_moves_

\* a cap of 2 ended the pass at the second cut hyperedge, after one move
C8_Witness ==
    /\ last.kind = "cap"
    /\ num_committed = 1
    /\ max_moves_ = 2

AllInternalAtEntry ==
    \A e \in Hyperedges :
        Cardinality({b \in Blocks : start.net_degs[e][b] > 0}) <= 1

\* C9: if every hyperedge is internal to one block at entry, the pass leaves
\* solution, block_balance, net_degs and cur_paths_cost alone and returns 0.
C9_NoOpOnUncutHypergraph ==
    AllInternalAtEntry =>
        /\ solution = start.solution
        /\ block_balance = start.block_balance
        /\ net_degs = start.net_degs
        /\ cur_paths_cost = start.cur_paths_cost
        /\ total_gain = 0
        /\ retval = 0

\* the pass returned on a hypergraph whose hyperedges are all internal while
\* the vertices are spread over two blocks
C9_Witness ==
    /\ AllInternalAtEntry
    /\ pc = "returned"
    /\ Cardinality({solution[v] : v \in Vertices}) > 1
    /\ max_moves_ = 0

\* the sweep is about to evaluate the candidates of a cut hyperedge
EvaluatingCut ==
    /\ InLoop
    /\ ~FullyWithinOneBlock(hyperedge_id)
    /\ ~MoveCapReached(num_move + 1)

LegalCandidates(e) ==
    {CalculateHyperedgeGain(e, to_pid, hgraph, solution) :
        to_pid \in {b \in Blocks :
                      CheckHyperedgeMoveLegality(e, b, hgraph, solution,
                                                 block_balance, max_block_balance)}}

ScenarioHypergraph ==
    /\ num_parts_ = 2
    /\ hgraph.num_hyperedges_ = 1
    /\ hgraph.eind[0] = {0, 1, 2}
    /\ hgraph.hyperedge_weights_[0][0] = 1
    /\ start.solution = [v \in Vertices |-> IF v = 2 THEN 1 ELSE 0]
    /\ max_moves_ >= 2

BoundScenario ==
    /\ ScenarioHypergraph
    /\ max_block_balance = MaxBlockBalance(<<2, 9>>)

UnconstrainedScenario ==
    /\ ScenarioHypergraph
    /\ max_block_balance = MaxBlockBalance(<<9, 9>>)

MoveIntoBlock0Illegal ==
    ~CheckHyperedgeMoveLegality(0, 0, hgraph, start.solution,
                                start.block_balance, max_block_balance)

\* C11 as stated: with block 0 bounded by 2 and block 1 unconstrained, moving
\* vertex 2 into block 0 is illegal and Pass returns total_gain = 0.
C11_BoundScenarioReturnsZero ==
    (BoundScenario /\ pc = "returned") =>
        /\ MoveIntoBlock0Illegal
        /\ retval = 0

\* C11 amended: moving vertex 2 into block 0 is illegal, and Pass commits
\* the legal move of vertices 0 and 1 into block 1 and returns total_gain = 1.
C11_BoundScenarioMovesIntoBlock1 ==
    (BoundScenario /\ pc = "returned") =>
        /\ MoveIntoBlock0Illegal
        /\ retval = 1
        /\ num_committed = 1
        /\ solution = [v \in Vertices |-> 1]
        /\ net_degs[0] = [b \in Blocks |-> IF b = 1 THEN 3 ELSE 0]

\* the pass returned in the scenario with the balance bound
C11_Witness == BoundScenario /\ pc = "returned" /\ last.kind = "finish"

StaleNetDegsAtEntry == start.net_degs # GetNetDegrees(hgraph, start.solution)

\* C13: Pass invoked with a net_degs that does not match solution is rejected
\* before the sweep starts: no element of solution, block_balance, net_degs
\* or cur_paths_cost is modified and no move is committed.
C13_StaleNetDegsRejected ==
    StaleNetDegsAtEntry =>
        /\ num_committed = 0
        /\ solution = start.solution
        /\ block_balance = start.block_balance
        /\ net_degs = start.net_degs
        /\ cur_paths_cost = start.cur_paths_cost


\* ----------------------------------------------------------------------
\* The evaluator
\* ----------------------------------------------------------------------
FactorsMismatch ==
    \E e \in Hyperedges :
        DOMAIN evaluator.e_wt_factors_ # DOMAIN hgraph.hyperedge_weights_[e]

CommitStep == last'.kind = "commit" /\ num_committed' = num_committed + 1

NoCandidateBeatsBaseline(e) ==
    \A g \in LegalCandidates(e) : g.gain < BaselineGainHyperedge.gain

CutByNetDegs(e) == Cardinality({b \in Blocks : net_degs[e][b] > 0}) > 1

\* C18: Pass terminates; every iteration that does not return goes on to the
\* next hyperedge id, so hyperedges are visited in ascending order, each at
\* most once, and at most num_hyperedges_ iterations run; an iteration skips
\* its hyperedge exactly when the current net_degs show it uncut.
C18_PassTerminates ==
    /\ <>(pc = "returned")
    /\ [](hyperedge_id <= hgraph.num_hyperedges_)
    /\ [][/\ (pc = "loop" /\ pc' = "loop") => hyperedge_id' = hyperedge_id + 1
          /\ hyperedge_id' \in {hyperedge_id, hyperedge_id + 1}
          /\ last'.kind \in {"skip", "cap", "nomove", "commit"} =>
                 /\ last'.hyperedge = hyperedge_id
                 /\ (last'.kind = "skip") = ~CutByNetDegs(hyperedge_id)]_vars

\* the pass ran to the end, and a hyperedge that was cut at entry was skipped
\* because an earlier commit had uncut it
C18_Witness ==
    /\ pc = "returned"
    /\ last.kind = "finish"
    /\ hyperedge_id = hgraph.num_hyperedges_
    /\ num_committed >= 1
    /\ num_evaluated <
           Cardinality({e \in Hyperedges :
               Cardinality({b \in Blocks : start.net_degs[e][b] > 0}) > 1})

MaximalGain(L) == CHOOSE m \in {g.gain : g \in L} : \A g \in L : g.gain <= m

Maximal(L) == {g \in L : g.gain = MaximalGain(L)}

getChildren(p) == children_[p]

getParent(c) == parent_[c]

Occurrences(c, seq) == Cardinality({i \in DOMAIN seq : seq[i] = c})

\* C21: for all builders p and c, c is in p.getChildren() if and only if
\* c.getParent() = p, and c appears there at most once.
C21_ParentChildLinksAgree ==
    \A p \in builders, c \in builders :
        /\ (Occurrences(c, getChildren(p)) > 0) = (getParent(c) = p)
        /\ Occurrences(c, getChildren(p)) <= 1

====
